---- MODULE Spec2Model ----
(***************************************************************************)
(* Model of interface.py: the feature-vector assembler                     *)
(* build_feature_vector, the model loader load_model and the form script   *)
(* that gates on the loaded predictor, builds the row, calls predict and   *)
(* reports the rounded, clamped count.                                     *)
(*                                                                         *)
(* Values of the feature row are records [k, n]: k = "int" is the integer  *)
(* n; k = "sin7", "cos7", "sin365", "cos365" is the sine or cosine of      *)
(* 2*pi*n/7 or 2*pi*n/365.25, kept as a term.  A python dict is a record   *)
(* [keys, val]: the insertion-ordered keys and the mapping.  Text is a     *)
(* sequence of one-character strings.                                      *)
(***************************************************************************)
EXTENDS Integers, Sequences, FiniteSets, TLC

VARIABLES
    predictor,   \* what load_model returned: NoPredictor or the predictor object
    cache,       \* st.cache_resource of load_model: [set, value]
    args,        \* the arguments of the current build_feature_vector call
    X,           \* the table the call returned: [built, raised, columns, row]
    pc,          \* position in the script / harness
    msgs,        \* messages shown during this script run, in order: <<origin, kind, count>>
    pred,        \* the predict call of this press: [invoked, raw, final]
    saved        \* an earlier call kept for comparison: [set, args, predictor, X]

vars == <<predictor, cache, args, X, pc, msgs, pred, saved>>

\* ------------------------------------------------------------------ bounds

\* Days of January 2020 among the dates a call is given.
MaxJanDay == 4

\* Largest magnitude, in whole units, of a numeric model output.
MaxPred == 2

\* ------------------------------------------------------------ python dicts

RangeOf(s) == {s[i] : i \in DOMAIN s}

EmptyDict == [keys |-> <<>>, val |-> [n \in {} |-> 0]]

\* d[k] = v: an existing key keeps its position, a new key goes last.
DictSet(d, k, v) ==
    IF k \in DOMAIN d.val
    THEN [keys |-> d.keys, val |-> [d.val EXCEPT ![k] = v]]
    ELSE [keys |-> Append(d.keys, k),
          val  |-> [n \in (DOMAIN d.val) \cup {k} |-> IF n = k THEN v ELSE d.val[n]]]

\* d.get(k, default)
DictGet(d, k, default) == IF k \in DOMAIN d.val THEN d.val[k] ELSE default

\* A dict display {k1: v1, ...} or a ** unpacking: the pairs set in order.
RECURSIVE DictUpdate(_, _)
DictUpdate(d, pairs) ==
    IF pairs = <<>> THEN d
    ELSE DictUpdate(DictSet(d, pairs[1][1], pairs[1][2]), Tail(pairs))

DictItems(d) == [i \in DOMAIN d.keys |-> <<d.keys[i], d.val[d.keys[i]]>>]

Num(n) == [k |-> "int", n |-> n]

\* ---------------------------------------------------------------- calendar

IsLeap(y) == (y % 4 = 0) /\ ((y % 100 # 0) \/ (y % 400 = 0))

DaysInMonth(y, m) ==
    IF m = 2 THEN (IF IsLeap(y) THEN 29 ELSE 28)
    ELSE IF m \in {4, 6, 9, 11} THEN 30 ELSE 31

RECURSIVE DaysBeforeMonth(_, _)
DaysBeforeMonth(y, m) ==
    IF m = 1 THEN 0 ELSE DaysBeforeMonth(y, m - 1) + DaysInMonth(y, m - 1)

DaysBeforeYear(y) ==
    (y - 1) * 365 + ((y - 1) \div 4) - ((y - 1) \div 100) + ((y - 1) \div 400)

\* proleptic Gregorian ordinal of the date <<y, m, d>>
Ordinal(dt) == DaysBeforeYear(dt[1]) + DaysBeforeMonth(dt[1], dt[2]) + dt[3]

\* Mutant: the week counted from Sunday, as date.isoweekday() % 7 does.
DayOfWeek_SundayZero(dt) == Ordinal(dt) % 7

\* dt.dayofweek: Monday is 0, Sunday is 6
DayOfWeek(dt) == (Ordinal(dt) + 6) % 7

\* dt.dayofyear
DayOfYear(dt) == DaysBeforeMonth(dt[1], dt[2]) + dt[3]

\* Ordinal of the Monday that starts ISO week 1 of year y.
IsoWeek1Monday(y) ==
    LET firstday == Ordinal(<<y, 1, 1>>)
        firstweekday == (firstday + 6) % 7
        monday == firstday - firstweekday
    IN IF firstweekday > 3 THEN monday + 7 ELSE monday

\* int(dt.isocalendar().week)
IsoWeek(dt) ==
    LET today == Ordinal(dt)
        y == dt[1]
    IN IF today < IsoWeek1Monday(y)
       THEN ((today - IsoWeek1Monday(y - 1)) \div 7) + 1
       ELSE IF today >= IsoWeek1Monday(y + 1)
            THEN 1
            ELSE ((today - IsoWeek1Monday(y)) \div 7) + 1

\* fim_semana = 1 if dia_semana >= 5 else 0
FimSemana(dia_semana) == IF dia_semana >= 5 THEN 1 ELSE 0

\* ------------------------------------------------------------- time of day

Digits == <<"0", "1", "2", "3", "4", "5", "6", "7", "8", "9">>

IsDigit(c) == c \in RangeOf(Digits)

DigitVal(c) == (CHOOSE i \in DOMAIN Digits : Digits[i] = c) - 1

\* The fields of a text between its ":" separators.
RECURSIVE SplitColon(_, _, _)
SplitColon(s, cur, acc) ==
    IF s = <<>> THEN Append(acc, cur)
    ELSE IF Head(s) = ":" THEN SplitColon(Tail(s), <<>>, Append(acc, cur))
    ELSE SplitColon(Tail(s), Append(cur, Head(s)), acc)

\* A field of one or two digits, as a number; -1 when it is not one.
FieldVal(f) ==
    IF Len(f) = 1 /\ IsDigit(f[1]) THEN DigitVal(f[1])
    ELSE IF Len(f) = 2 /\ IsDigit(f[1]) /\ IsDigit(f[2])
         THEN 10 * DigitVal(f[1]) + DigitVal(f[2])
         ELSE -1

\* pd.to_datetime(text, format="%H:%M:%S", errors="coerce"): the hour of the
\* parsed time, or NaT (here -1) when the text is not of that format.
ParseHMS(text) ==
    LET fs == SplitColon(text, <<>>, <<>>)
    IN IF Len(fs) = 3
          /\ FieldVal(fs[1]) \in 0..23
          /\ FieldVal(fs[2]) \in 0..59
          /\ FieldVal(fs[3]) \in 0..59
       THEN FieldVal(fs[1])
       ELSE -1

\* hasattr(horario, "hour"): a datetime.time has it, a str and None do not.
HasHour(horario) == horario.kind = "time"

\* str(horario)
Str(horario) ==
    IF horario.kind = "text" THEN horario.chars
    ELSE IF horario.kind = "none" THEN <<"N", "o", "n", "e">>
    ELSE <<>>

\* Mutant: the hour of a failed parse is used as it is, not replaced by 0.
HoraMedia_NoDefault(horario) ==
    IF HasHour(horario) THEN horario.hour ELSE ParseHMS(Str(horario))

HoraMedia(horario) ==
    IF HasHour(horario) THEN horario.hour
    ELSE LET parsed == ParseHMS(Str(horario))
         IN IF parsed # -1 THEN parsed ELSE 0

\* ---------------------------------------------------------------- encoders

\* The order of the labels as strings (np.unique sorts the classes).
LabelOrder == <<"ARAXA", "BELO HORIZONTE", "Bom", "Chuva", "MG", "SP", "XX">>

\* What a selectbox over an empty option list returns: None, no label at all.
NoValue == "<None>"

\* LabelEncoder().fit(labels): classes_ is the sorted distinct labels.
fit(labels) ==
    [fitted |-> TRUE, classes_ |-> SelectSeq(LabelOrder, LAMBDA l : l \in labels)]

\* A LabelEncoder that was never fitted: it has no classes_.
Unfitted == [fitted |-> FALSE, classes_ |-> <<>>]

IndexOf(seq, x) == CHOOSE i \in DOMAIN seq : seq[i] = x

\* Mutant: an unseen label is learned on the way, as fit_transform would: the
\* encoder's classes_ grow and the label gets a code.
transform_Refit(enc, y) ==
    IF ~enc.fitted THEN [raised |-> TRUE, out |-> <<>>, enc |-> enc]
    ELSE LET grown == fit(RangeOf(enc.classes_) \cup (RangeOf(y) \cap RangeOf(LabelOrder)))
         IN IF \E i \in DOMAIN y : y[i] \notin RangeOf(grown.classes_)
            THEN [raised |-> TRUE, out |-> <<>>, enc |-> enc]
            ELSE [raised |-> FALSE,
                  out |-> [i \in DOMAIN y |-> IndexOf(grown.classes_, y[i]) - 1],
                  enc |-> grown]

\* enc.transform(y): the codes of the labels of y, each its index in classes_.
\* It raises when the encoder is not fitted or a label is unseen, and it
\* leaves the encoder as it was (enc is the encoder after the call).
transform(enc, y) ==
    IF ~enc.fitted THEN [raised |-> TRUE, out |-> <<>>, enc |-> enc]
    ELSE IF \E i \in DOMAIN y : y[i] \notin RangeOf(enc.classes_)
         THEN [raised |-> TRUE, out |-> <<>>, enc |-> enc]
         ELSE [raised |-> FALSE,
               out |-> [i \in DOMAIN y |-> IndexOf(enc.classes_, y[i]) - 1],
               enc |-> enc]

\* Mutant: an unseen value falls back to the last class, classes_[-1].
EncodeColumn_LastClass(bank, col, val) ==
    IF col \notin DOMAIN bank
    THEN [value |-> 0, bank |-> bank]
    ELSE LET first == transform(bank[col], <<val>>)
         IN IF ~first.raised
            THEN [value |-> first.out[1], bank |-> bank]
            ELSE IF ~first.enc.fitted \/ first.enc.classes_ = <<>>
                 THEN [value |-> 0, bank |-> bank]
                 ELSE [value |-> Len(first.enc.classes_) - 1, bank |-> bank]

\* Mutant: a column without an encoder gets the code -1.
EncodeColumn_MissingMinusOne(bank, col, val) ==
    IF col \notin DOMAIN bank
    THEN [value |-> -1, bank |-> bank]
    ELSE LET first == transform(bank[col], <<val>>)
         IN IF ~first.raised
            THEN [value |-> first.out[1], bank |-> bank]
            ELSE [value |-> 0, bank |-> bank]

\* One turn of the loop over mapping.items(): the *_encoded value of column
\* col for the raw value val, and the encoder bank after the lookups.
EncodeColumn(bank, col, val) ==
    IF col \notin DOMAIN bank
    THEN [value |-> 0, bank |-> bank]
    ELSE LET first == transform(bank[col], <<val>>)
         IN IF ~first.raised
            THEN [value |-> first.out[1], bank |-> [bank EXCEPT ![col] = first.enc]]
            ELSE IF ~first.enc.fitted \/ first.enc.classes_ = <<>>
                 THEN \* enc.classes_[0] raises: AttributeError or IndexError
                      [value |-> 0, bank |-> [bank EXCEPT ![col] = first.enc]]
                 ELSE LET second == transform(first.enc, <<first.enc.classes_[1]>>)
                      IN [value |-> IF second.raised THEN 0 ELSE second.out[1],
                          bank  |-> [bank EXCEPT ![col] = second.enc]]

\* mapping, in the order of its display
CategoricalColumns ==
    <<"uf_principal", "municipio_principal", "condicao_metereologica_principal">>

EncodedName(col) ==
    CASE col = "uf_principal" -> "uf_principal_encoded"
      [] col = "municipio_principal" -> "municipio_principal_encoded"
      [] col = "condicao_metereologica_principal" -> "condicao_metereologica_principal_encoded"

\* The loop over mapping.items(): the encoded dict and the bank after it.
RECURSIVE EncodeAll(_, _, _, _)
EncodeAll(bank, mapping, i, encoded) ==
    IF i > Len(CategoricalColumns) THEN [encoded |-> encoded, bank |-> bank]
    ELSE LET col == CategoricalColumns[i]
             r == EncodeColumn(bank, col, mapping[col])
         IN EncodeAll(r.bank, mapping, i + 1,
                      DictSet(encoded, EncodedName(col), Num(r.value)))

\* ------------------------------------------------------ build_feature_vector

\* defaults: the lag and moving-window features
Defaults ==
    <<"acidentes_lag_1", "acidentes_lag_2", "acidentes_lag_7", "acidentes_lag_14",
      "media_movel_7d", "std_movel_7d", "media_movel_14d", "std_movel_14d",
      "media_movel_28d", "std_movel_28d">>

\* Mutant: the 28-day window features are forgotten.
DefaultsDict_No28d ==
    DictUpdate(EmptyDict, [i \in 1..(Len(Defaults) - 2) |-> <<Defaults[i], Num(0)>>])

DefaultsDict == DictUpdate(EmptyDict, [i \in DOMAIN Defaults |-> <<Defaults[i], Num(0)>>])

\* int(dt in getattr(predictor, "holidays_br", []))
Feriado(p, dt) == IF p.holidays_br.present /\ dt \in p.holidays_br.dates THEN 1 ELSE 0

\* Mutant: a holiday or a weekend, not both.
FeriadoFimSemana_Or(feriado, fim_semana) == IF feriado + fim_semana > 0 THEN 1 ELSE 0

\* feriado_fim_semana = feriado * fim_semana
FeriadoFimSemana(feriado, fim_semana) == feriado * fim_semana

\* row = { ..., **defaults, **encoded }
Row(p, data_fixa, horario, encoded) ==
    LET dia_semana == DayOfWeek(data_fixa)
        dia_ano == DayOfYear(data_fixa)
        fim_semana == FimSemana(dia_semana)
        feriado == Feriado(p, data_fixa)
        calendar == DictUpdate(EmptyDict, <<
            <<"ano", Num(data_fixa[1])>>,
            <<"mes", Num(data_fixa[2])>>,
            <<"dia_semana", Num(dia_semana)>>,
            <<"dia_ano", Num(dia_ano)>>,
            <<"semana_ano", Num(IsoWeek(data_fixa))>>,
            <<"fim_semana", Num(fim_semana)>>,
            <<"dia_semana_sin", [k |-> "sin7", n |-> dia_semana]>>,
            <<"dia_semana_cos", [k |-> "cos7", n |-> dia_semana]>>,
            <<"dia_ano_sin", [k |-> "sin365", n |-> dia_ano]>>,
            <<"dia_ano_cos", [k |-> "cos365", n |-> dia_ano]>>,
            <<"hora_media", Num(HoraMedia(horario))>>,
            <<"feriado", Num(feriado)>>,
            <<"feriado_fim_semana", Num(FeriadoFimSemana(feriado, fim_semana))>> >>)
    IN DictUpdate(DictUpdate(calendar, DictItems(DefaultsDict)), DictItems(encoded))

\* Mutant: a schema name the row does not compute is skipped, not set to 0.
RECURSIVE Project_SkipMissing(_, _, _)
Project_SkipMissing(row, feature_names, acc) ==
    IF feature_names = <<>> THEN acc
    ELSE Project_SkipMissing(row, Tail(feature_names),
            IF Head(feature_names) \in DOMAIN row.val
            THEN DictSet(acc, Head(feature_names), row.val[Head(feature_names)])
            ELSE acc)

\* for feat in predictor.feature_names: X[feat] = row.get(feat, 0)
RECURSIVE Project(_, _, _)
Project(row, feature_names, acc) ==
    IF feature_names = <<>> THEN acc
    ELSE Project(row, Tail(feature_names),
                 DictSet(acc, Head(feature_names), DictGet(row, Head(feature_names), Num(0))))

\* pd.DataFrame([d]): one row, the columns in the dict's order
DataFrame(d) == [built |-> TRUE, raised |-> FALSE, columns |-> d.keys, row |-> d.val]

NoTable == [built |-> FALSE, raised |-> FALSE, columns |-> <<>>, row |-> EmptyDict.val]

Raised == [built |-> FALSE, raised |-> TRUE, columns |-> <<>>, row |-> EmptyDict.val]

\* if predictor.feature_names: ... else: ...
Select(row, feature_names) ==
    IF feature_names # <<>>
    THEN DataFrame(Project(row, feature_names, EmptyDict))
    ELSE DataFrame(row)

\* The call: the table returned (or Raised) and the predictor after the call.
build_feature_vector(p, a) ==
    IF ~p.encoders.isdict
    THEN \* predictor.encoders.get raises AttributeError
         [X |-> Raised, predictor |-> p]
    ELSE LET mapping == [c \in RangeOf(CategoricalColumns) |->
                            CASE c = "uf_principal" -> a.uf
                              [] c = "municipio_principal" -> a.municipio
                              [] OTHER -> a.condicao_metereologica]
             e == EncodeAll(p.encoders.bank, mapping, 1, EmptyDict)
             row == Row(p, a.data_fixa, a.horario, e.encoded)
         IN [X |-> Select(row, p.feature_names),
             predictor |-> [p EXCEPT !.encoders.bank = e.bank]]

\* ------------------------------------------------------------------ inputs

\* The dates a call is given: the last days of 2019, the first of 2020 (the
\* form's fixed date 2020-01-01 among them), a leap day and a year's last day.
Dates ==
    {<<2019, 12, d>> : d \in 29..31} \cup {<<2020, 1, d>> : d \in 1..MaxJanDay}
        \cup {<<2020, 2, 29>>, <<2020, 12, 31>>}

Time(h) == [kind |-> "time", hour |-> h, chars |-> <<>>]

Text(chars) == [kind |-> "text", hour |-> 0, chars |-> chars]

NoTime == [kind |-> "none", hour |-> 0, chars |-> <<>>]

\* The time-of-day values a call is given: datetime.time values, texts that
\* are and are not of the form HH:MM:SS, and None.
Horarios ==
    {Time(8),
     Text(<<"0", "8", ":", "0", "0", ":", "0", "0">>),
     Text(<<"2", "4", ":", "0", "0", ":", "0", "0">>),
     Text(<<"0", "8", ":", "0", "0">>),
     Text(<<"n", "o", "t", "-", "a", "-", "t", "i", "m", "e">>),
     NoTime}

UFs == {"MG", "SP", "XX"}

Municipios == {"BELO HORIZONTE", NoValue}

Condicoes == {"Chuva", "XX"}

Inputs ==
    [data_fixa : Dates, horario : Horarios, uf : UFs, municipio : Municipios,
     condicao_metereologica : Condicoes]

NoArgs ==
    [data_fixa |-> <<0, 0, 0>>, horario |-> NoTime, uf |-> NoValue,
     municipio |-> NoValue, condicao_metereologica |-> NoValue]

\* The encoders an artifact may hold for each column.
EncoderChoices ==
    [c \in RangeOf(CategoricalColumns) |->
        CASE c = "uf_principal" -> {fit({"MG", "SP"}), Unfitted}
          [] c = "municipio_principal" -> {fit({"ARAXA", "BELO HORIZONTE"})}
          [] OTHER -> {fit({"Bom", "Chuva"}), fit({})}]

\* Every encoder bank: any subset of the columns, each with one of its encoders.
Banks ==
    UNION {{b \in [cols -> UNION {EncoderChoices[c] : c \in cols}] :
                \A c \in cols : b[c] \in EncoderChoices[c]} :
           cols \in SUBSET RangeOf(CategoricalColumns)}

FullBank == [c \in RangeOf(CategoricalColumns) |->
                CASE c = "uf_principal" -> fit({"MG", "SP"})
                  [] c = "municipio_principal" -> fit({"ARAXA", "BELO HORIZONTE"})
                  [] OTHER -> fit({"Bom", "Chuva"})]

ExampleSchema == <<"ano", "mes", "dia_semana", "fim_semana", "hora_media">>

\* Computed names of all three kinds, and a name the row does not compute.
MixedSchema ==
    <<"uf_principal_encoded", "tipo_acidente", "feriado_fim_semana", "feriado",
      "std_movel_28d", "condicao_metereologica_principal_encoded", "dia_ano_cos",
      "municipio_principal_encoded", "fim_semana">>

\* A schema that names a column twice.
RepeatingSchema == <<"semana_ano", "dia_ano", "semana_ano", "br", "hora_media">>

\* The feature-name schemas: none, and the three above.
Schemas == {<<>>, ExampleSchema, MixedSchema, RepeatingSchema}

NoHolidays == [present |-> FALSE, dates |-> {}]

\* A Saturday (2020-01-04), a Sunday (2019-12-29) and two weekdays.
SomeHolidays ==
    [present |-> TRUE,
     dates |-> {<<2020, 1, 1>>, <<2020, 1, 4>>, <<2019, 12, 29>>, <<2019, 12, 31>>}]

\* The holiday sets: no holidays_br attribute, an empty set, and some holidays.
HolidaySets == {NoHolidays, [present |-> TRUE, dates |-> {}], SomeHolidays}

Predictor(bank, schema, holidays) ==
    [isNone |-> FALSE, modelo |-> "model",
     encoders |-> [isdict |-> TRUE, bank |-> bank],
     feature_names |-> schema, holidays_br |-> holidays, treinado |-> TRUE,
     r2_score |-> "None", rmse_score |-> "None"]

\* The predictors build_feature_vector is called with: every bank under the
\* mixed schema, no encoder at all under the empty schema, and under the full
\* bank every schema and, with the empty schema, every holiday set.
Predictors ==
    {Predictor(b, MixedSchema, SomeHolidays) : b \in Banks}
        \cup {Predictor(<<>>, <<>>, SomeHolidays)}
        \cup {Predictor(FullBank, s, SomeHolidays) : s \in Schemas}
        \cup {Predictor(FullBank, <<>>, h) : h \in HolidaySets}

NoPredictor ==
    [isNone |-> TRUE, modelo |-> "None",
     encoders |-> [isdict |-> FALSE, bank |-> <<>>],
     feature_names |-> <<>>, holidays_br |-> NoHolidays,
     treinado |-> FALSE, r2_score |-> "None", rmse_score |-> "None"]

NoRaw == [shape |-> "none", finite |-> TRUE, q |-> 0]

NoPred == [invoked |-> FALSE, raw |-> NoRaw, final |-> 0]

NoSaved ==
    [set |-> FALSE, args |-> NoArgs, predictor |-> NoPredictor, X |-> NoTable,
     others |-> FALSE]

\* ------------------------------------------ build_feature_vector, called

Init ==
    /\ predictor \in Predictors
    /\ cache = [set |-> FALSE, value |-> NoPredictor, msgs |-> <<>>]
    /\ args = NoArgs
    /\ X = NoTable
    /\ pc = "ready"
    /\ msgs = <<>>
    /\ pred = NoPred
    /\ saved = NoSaved

\* One call of build_feature_vector(predictor, **a), up to its return.
Call(a) ==
    /\ pc = "ready"
    /\ LET r == build_feature_vector(predictor, a)
       IN /\ X' = r.X
          /\ predictor' = r.predictor
    /\ args' = a
    /\ pc' = "returned"
    /\ saved' = IF saved.set /\ saved.args # a
                THEN [saved EXCEPT !.others = TRUE] ELSE saved
    /\ UNCHANGED <<cache, msgs, pred>>

CallAny == \E a \in Inputs : Call(a)

\* The caller drops the row: it is not kept beyond the call.
Return ==
    /\ pc = "returned"
    /\ pc' = "ready"
    /\ args' = NoArgs
    /\ X' = NoTable
    /\ UNCHANGED <<predictor, cache, msgs, pred, saved>>

Next == CallAny \/ Return

Spec == Init /\ [][Next]_vars

\* --------------------------------- build_feature_vector, called repeatedly

\* The arguments of the repeated calls.
RepeatInputs ==
    [data_fixa : {<<2020, 1, 1>>, <<2020, 1, 4>>},
     horario : {Time(8), Text(<<"n", "o", "t", "-", "a", "-", "t", "i", "m", "e">>)},
     uf : {"SP", "XX"}, municipio : {"BELO HORIZONTE"},
     condicao_metereologica : {"Chuva"}]

CallRepeat == \E a \in RepeatInputs : Call(a)

\* The observer keeps the call that just returned, to compare later calls with.
Remember ==
    /\ pc = "returned"
    /\ ~saved.set
    /\ saved' = [set |-> TRUE, args |-> args, predictor |-> predictor, X |-> X,
                 others |-> FALSE]
    /\ UNCHANGED <<predictor, cache, args, X, pc, msgs, pred>>

NextRepeat == CallRepeat \/ Return \/ Remember

SpecRepeat == Init /\ [][NextRepeat]_vars

\* ------------------------------------------------------------ the form

\* A message on the page: where it was shown, its kind, and the count it reports.
Msg(origin, kind) == <<origin, kind, 0>>

\* What the pickle file holds: "modelo" and "model" (either may be missing or
\* None), "encoders" (a dict, or something that is not one), "feature_names",
\* the two scores (each a number or None), and the holiday set the predictor's
\* constructor sets.
Artifact(modelo, model, isdict, bank, schema, r2, rmse, holidays) ==
    [modelo |-> modelo, model |-> model,
     encoders |-> [isdict |-> isdict, bank |-> bank],
     feature_names |-> schema, r2_score |-> r2, rmse_score |-> rmse,
     holidays_br |-> holidays]

Artifacts ==
    {Artifact("model", "None", TRUE, FullBank, ExampleSchema, "number", "number", SomeHolidays),
     Artifact("None", "model", TRUE, <<>>, <<>>, "number", "None", NoHolidays),
     Artifact("model", "None", FALSE, <<>>, MixedSchema, "None", "None", NoHolidays),
     Artifact("None", "None", TRUE, FullBank, ExampleSchema, "number", "number", SomeHolidays)}

\* What happens when load_model runs: the file is missing, reading it fails,
\* or it holds an artifact.
LoadOutcomes ==
    {[kind |-> "missing", data |-> Artifact("None", "None", FALSE, <<>>, <<>>, "None", "None", NoHolidays)],
     [kind |-> "error", data |-> Artifact("None", "None", FALSE, <<>>, <<>>, "None", "None", NoHolidays)]}
        \cup {[kind |-> "data", data |-> d] : d \in Artifacts}

\* load_model(): the predictor returned (None on a failure) and the messages shown.
load_model(o) ==
    IF o.kind = "missing" \/ o.kind = "error"
    THEN [value |-> NoPredictor, msgs |-> <<Msg("load_model", "error")>>]
    ELSE LET d == o.data
             modelo == IF d.modelo # "None" THEN d.modelo ELSE d.model
         IN [value |-> [isNone |-> FALSE,
                        modelo |-> modelo,
                        encoders |-> d.encoders,
                        feature_names |-> d.feature_names,
                        holidays_br |-> IF d.holidays_br.present /\ d.holidays_br.dates # {}
                                        THEN d.holidays_br
                                        ELSE [present |-> TRUE, dates |-> {}],
                        treinado |-> modelo # "None",
                        r2_score |-> d.r2_score,
                        rmse_score |-> d.rmse_score],
             msgs |-> <<>>]

\* Mutant: the gate looks only at whether a predictor was returned.
GateOpen_IgnoreTreinado(p) == ~p.isNone

\* not (predictor is None or not getattr(predictor, "treinado", False))
GateOpen(p) == ~p.isNone /\ p.treinado

\* What the widgets give: the fixed date, a datetime.time, and the selections.
FormInputs ==
    [data_fixa : {<<2020, 1, 1>>}, horario : {Time(0), Time(8)},
     uf : {"SP", NoValue}, municipio : {"BELO HORIZONTE", "DESCONHECIDO"},
     condicao_metereologica : {"Bom"}]

\* What predictor.modelo.predict(X) does: it raises, or returns an array (of one
\* element or none) or a scalar; the number is q/4, or not finite (nan, inf).
PredictOutcomes ==
    {[shape |-> "raise", finite |-> TRUE, q |-> 0],
     [shape |-> "empty", finite |-> TRUE, q |-> 0],
     [shape |-> "array", finite |-> FALSE, q |-> 0],
     [shape |-> "scalar", finite |-> FALSE, q |-> 0]}
        \cup [shape : {"array", "scalar"}, finite : {TRUE}, q : (-4 * MaxPred)..(4 * MaxPred)]

\* np.round of q/4: to the nearest integer, a tie to the even one.
Round(q) ==
    LET f == q \div 4
        r == q % 4
    IN IF r < 2 THEN f
       ELSE IF r > 2 THEN f + 1
       ELSE IF f % 2 = 0 THEN f ELSE f + 1

\* Mutant: the rounded value is reported without the clip.
pred_final_NoClip(q) == Round(q)

\* int(np.round(pred_val).clip(0))
pred_final(q) == IF Round(q) < 0 THEN 0 ELSE Round(q)

InitApp ==
    /\ predictor = NoPredictor
    /\ cache = [set |-> FALSE, value |-> NoPredictor, msgs |-> <<>>]
    /\ args = NoArgs
    /\ X = NoTable
    /\ pc = "start"
    /\ msgs = <<>>
    /\ pred = NoPred
    /\ saved = NoSaved

\* predictor = load_model(), not cached yet: the function runs.
LoadModel ==
    /\ pc = "start"
    /\ ~cache.set
    /\ \E o \in LoadOutcomes :
          LET r == load_model(o)
          IN /\ predictor' = r.value
             /\ msgs' = msgs \o r.msgs
             /\ cache' = [set |-> TRUE, value |-> r.value, msgs |-> r.msgs]
    /\ pc' = "loaded"
    /\ UNCHANGED <<args, X, pred, saved>>

\* predictor = load_model(), cached: the kept value, its messages shown again.
LoadCached ==
    /\ pc = "start"
    /\ cache.set
    /\ predictor' = cache.value
    /\ msgs' = msgs \o cache.msgs
    /\ pc' = "loaded"
    /\ UNCHANGED <<cache, args, X, pred, saved>>

\* The gate is closed: the warning, and the script ends.
GateWarn ==
    /\ pc = "loaded"
    /\ ~GateOpen(predictor)
    /\ msgs' = Append(msgs, Msg("script", "warning"))
    /\ pc' = "nomodel"
    /\ UNCHANGED <<predictor, cache, args, X, pred, saved>>

\* The gate is open: the widgets are shown.
GateForm ==
    /\ pc = "loaded"
    /\ GateOpen(predictor)
    /\ pc' = "form"
    /\ UNCHANGED <<predictor, cache, args, X, msgs, pred, saved>>

\* The button is pressed: the row is built; a raise goes to the outer except.
PressButton ==
    /\ pc = "form"
    /\ \E a \in FormInputs :
          LET r == build_feature_vector(predictor, a)
          IN /\ args' = a
             /\ X' = r.X
             /\ predictor' = r.predictor
             /\ IF r.X.raised
                THEN /\ msgs' = msgs \o <<Msg("press", "error"), Msg("press", "exception")>>
                     /\ pc' = "done"
                ELSE /\ msgs' = msgs
                     /\ pc' = "built"
    /\ UNCHANGED <<cache, pred, saved>>

\* if predictor.modelo is None: st.error(...)
CheckModel ==
    /\ pc = "built"
    /\ IF predictor.modelo = "None"
       THEN /\ msgs' = Append(msgs, Msg("press", "error"))
            /\ pc' = "done"
       ELSE /\ msgs' = msgs
            /\ pc' = "predict"
    /\ UNCHANGED <<predictor, cache, args, X, pred, saved>>

\* pred_raw = predictor.modelo.predict(X); a raise goes to the inner except.
Predict ==
    /\ pc = "predict"
    /\ \E o \in PredictOutcomes :
          /\ pred' = [invoked |-> TRUE, raw |-> o, final |-> 0]
          /\ IF o.shape = "raise"
             THEN /\ msgs' = msgs \o <<Msg("press", "error"), Msg("press", "exception")>>
                  /\ pc' = "done"
             ELSE /\ msgs' = msgs
                  /\ pc' = "report"
    /\ UNCHANGED <<predictor, cache, args, X, saved>>

\* The number is taken, rounded, clipped and reported; pred_raw[0] of an empty
\* array and int() of a nan or inf raise, to the inner except.
Report ==
    /\ pc = "report"
    /\ IF pred.raw.shape = "empty" \/ ~pred.raw.finite
       THEN /\ msgs' = msgs \o <<Msg("press", "error"), Msg("press", "exception")>>
            /\ pred' = pred
       ELSE /\ pred' = [pred EXCEPT !.final = pred_final(pred.raw.q)]
            /\ msgs' = msgs \o <<<<"press", "success", pred_final(pred.raw.q)>>>>
                            \o (IF predictor.r2_score # "None" /\ predictor.rmse_score # "None"
                                THEN <<Msg("press", "info")>> ELSE <<>>)
    /\ pc' = "done"
    /\ UNCHANGED <<predictor, cache, args, X, saved>>

\* The script ends without a press.
NoPress ==
    /\ pc = "form"
    /\ pc' = "idle"
    /\ UNCHANGED <<predictor, cache, args, X, msgs, pred, saved>>

\* An interaction runs the script again from the top, on a fresh page.
Rerun ==
    /\ pc \in {"nomodel", "idle", "done"}
    /\ pc' = "start"
    /\ msgs' = <<>>
    /\ args' = NoArgs
    /\ X' = NoTable
    /\ pred' = NoPred
    /\ UNCHANGED <<predictor, cache, saved>>

\* The resource cache is cleared (the server restarts): load_model runs again.
ClearCache ==
    /\ pc \in {"nomodel", "idle", "done"}
    /\ cache.set
    /\ cache' = [set |-> FALSE, value |-> NoPredictor, msgs |-> <<>>]
    /\ UNCHANGED <<predictor, args, X, pc, msgs, pred, saved>>

NextApp ==
    \/ LoadModel \/ LoadCached \/ GateWarn \/ GateForm \/ PressButton
    \/ CheckModel \/ Predict \/ Report \/ NoPress \/ Rerun \/ ClearCache

SpecApp == InitApp /\ [][NextApp]_vars

\* ------------------------------------------------------------------ claims

Returned == pc = "returned"

Bank == predictor.encoders.bank

NoDuplicates(seq) == \A i, j \in DOMAIN seq : seq[i] = seq[j] => i = j

FirstIndex(seq, x) == CHOOSE i \in DOMAIN seq : seq[i] = x /\ \A j \in 1..(i - 1) : seq[j] # x

\* The names the row computes, as the documentation lists them.
CalendarNames ==
    <<"ano", "mes", "dia_semana", "dia_ano", "semana_ano", "fim_semana",
      "dia_semana_sin", "dia_semana_cos", "dia_ano_sin", "dia_ano_cos",
      "hora_media", "feriado", "feriado_fim_semana">>

LagNames ==
    <<"acidentes_lag_1", "acidentes_lag_2", "acidentes_lag_7", "acidentes_lag_14",
      "media_movel_7d", "std_movel_7d", "media_movel_14d", "std_movel_14d",
      "media_movel_28d", "std_movel_28d">>

EncodedNames ==
    <<"uf_principal_encoded", "municipio_principal_encoded",
      "condicao_metereologica_principal_encoded">>

ComputedNames == RangeOf(CalendarNames) \cup RangeOf(LagNames) \cup RangeOf(EncodedNames)

\* C1: with a non-empty schema S the returned table has exactly the column
\* names of S, in the order of S (a name S repeats is one column, at its first
\* place), and no other column; for an S without repetition the columns are S.
C1_SchemaConformance ==
    (Returned /\ predictor.feature_names # <<>>) =>
        LET S == predictor.feature_names
        IN /\ X.built
           /\ RangeOf(X.columns) = RangeOf(S)
           /\ DOMAIN X.row = RangeOf(S)
           /\ NoDuplicates(X.columns)
           /\ \A i, j \in DOMAIN X.columns :
                  i < j => FirstIndex(S, X.columns[i]) < FirstIndex(S, X.columns[j])
           /\ (NoDuplicates(S) => X.columns = S)

C1_Witness ==
    /\ Returned
    /\ predictor.feature_names = MixedSchema
    /\ X.columns = MixedSchema
    /\ args.uf = "XX"

\* The full computed row of the current call: what the call returns when the
\* schema is empty.
ComputedRow == build_feature_vector([predictor EXCEPT !.feature_names = <<>>], args).X.row

\* C2: with a non-empty schema every schema name that the row computes carries
\* the computed value, every other schema name carries 0, and no computed name
\* outside the schema is in the output; 2020-01-01 at 08:00:00 under the schema
\* [ano, mes, dia_semana, fim_semana, hora_media] gives 2020, 1, 2, 0, 8.
C2_Projection ==
    (Returned /\ predictor.feature_names # <<>>) =>
        LET S == RangeOf(predictor.feature_names)
        IN /\ X.built
           /\ \A n \in S \cap ComputedNames : n \in DOMAIN X.row /\ X.row[n] = ComputedRow[n]
           /\ \A n \in S \ ComputedNames : n \in DOMAIN X.row /\ X.row[n] = Num(0)
           /\ \A n \in ComputedNames \ S : n \notin DOMAIN X.row
           /\ (/\ predictor.feature_names = ExampleSchema
               /\ args.data_fixa = <<2020, 1, 1>>
               /\ args.horario \in {Time(8), Text(<<"0", "8", ":", "0", "0", ":", "0", "0">>)})
              => /\ X.columns = ExampleSchema
                 /\ X.row["ano"] = Num(2020)
                 /\ X.row["mes"] = Num(1)
                 /\ X.row["dia_semana"] = Num(2)
                 /\ X.row["fim_semana"] = Num(0)
                 /\ X.row["hora_media"] = Num(8)

C2_Witness ==
    /\ Returned
    /\ predictor.feature_names = ExampleSchema
    /\ args.data_fixa = <<2020, 1, 1>>
    /\ args.horario = Time(8)
    /\ args.uf = "MG"
    /\ args.municipio = "BELO HORIZONTE"
    /\ X.row["hora_media"] = Num(8)

\* The raw value the call was given for a categorical column.
RawValue(col) ==
    CASE col = "uf_principal" -> args.uf
      [] col = "municipio_principal" -> args.municipio
      [] OTHER -> args.condicao_metereologica

Rank(label) == CHOOSE i \in DOMAIN LabelOrder : LabelOrder[i] = label

\* The code a fitted encoder assigns to one of its classes: the number of its
\* classes that sort before it.
Code(enc, label) == Cardinality({c \in RangeOf(enc.classes_) : Rank(c) < Rank(label)})

\* C3: for a column whose encoder exists, a value of the encoder's vocabulary
\* is encoded as the code the encoder assigns to it; an unseen value as the
\* code of the encoder's first known class; 0 when that lookup fails too (the
\* encoder is not fitted or has no class); and the call returns a table.
C3_EncoderFallback ==
    Returned =>
        /\ X.built /\ ~X.raised
        /\ \A col \in DOMAIN Bank :
              EncodedName(col) \in DOMAIN X.row =>
                 LET enc == Bank[col]
                     val == RawValue(col)
                     v == X.row[EncodedName(col)]
                 IN IF enc.fitted /\ val \in RangeOf(enc.classes_)
                    THEN v = Num(Code(enc, val))
                    ELSE IF enc.fitted /\ enc.classes_ # <<>>
                         THEN v = Num(Code(enc, enc.classes_[1]))
                         ELSE v = Num(0)

C3_Witness ==
    /\ Returned
    /\ "uf_principal" \in DOMAIN Bank
    /\ Bank["uf_principal"] = fit({"MG", "SP"})
    /\ args.uf = "XX"
    /\ "condicao_metereologica_principal" \in DOMAIN Bank
    /\ args.condicao_metereologica = "Chuva"
    /\ "uf_principal_encoded" \in DOMAIN X.row
    /\ X.row["uf_principal_encoded"] = Num(0)
    /\ X.row["condicao_metereologica_principal_encoded"] = Num(1)

\* C4: a column the encoder bank has no entry for is encoded as 0, whatever
\* its raw value and whatever encoders the other columns have, and the call
\* returns a table.
C4_MissingEncoder ==
    Returned =>
        /\ X.built /\ ~X.raised
        /\ \A col \in RangeOf(CategoricalColumns) \ DOMAIN Bank :
              EncodedName(col) \in DOMAIN X.row => X.row[EncodedName(col)] = Num(0)

C4_Witness ==
    /\ Returned
    /\ "municipio_principal" \notin DOMAIN Bank
    /\ "uf_principal" \in DOMAIN Bank
    /\ args.municipio = "BELO HORIZONTE"
    /\ args.uf = "SP"
    /\ "municipio_principal_encoded" \in DOMAIN X.row
    /\ X.row["municipio_principal_encoded"] = Num(0)
    /\ X.row["uf_principal_encoded"] = Num(1)

\* The hour a text of the exact shape DD:DD:DD stands for, 0 for any other text.
TextHour(chars) ==
    IF /\ Len(chars) = 8
       /\ chars[3] = ":" /\ chars[6] = ":"
       /\ \A i \in {1, 2, 4, 5, 7, 8} : chars[i] \in RangeOf(Digits)
       /\ 10 * DigitVal(chars[1]) + DigitVal(chars[2]) <= 23
       /\ 10 * DigitVal(chars[4]) + DigitVal(chars[5]) <= 59
       /\ 10 * DigitVal(chars[7]) + DigitVal(chars[8]) <= 59
    THEN 10 * DigitVal(chars[1]) + DigitVal(chars[2])
    ELSE 0

\* C5: hora_media is the hour field of a time-of-day value that has one,
\* else the hour of the value read as an HH:MM:SS text, else 0; and the call
\* returns a table for every time-of-day value, "not-a-time" and None included.
C5_HourFallback ==
    Returned =>
        /\ X.built /\ ~X.raised
        /\ "hora_media" \in DOMAIN X.row =>
              X.row["hora_media"] =
                 Num(CASE args.horario.kind = "time" -> args.horario.hour
                       [] args.horario.kind = "text" -> TextHour(args.horario.chars)
                       [] OTHER -> 0)

C5_Witness ==
    /\ Returned
    /\ args.horario = Text(<<"n", "o", "t", "-", "a", "-", "t", "i", "m", "e">>)
    /\ X.built
    /\ "hora_media" \in DOMAIN X.row
    /\ X.row["hora_media"] = Num(0)

\* The day of the week of the dates given, from the calendar: 2019-12-29 was a
\* Sunday, 2020-02-29 a Saturday, 2020-12-31 a Thursday.
KnownDayOfWeek(dt) ==
    CASE dt[1] = 2019 -> (6 + (dt[3] - 29)) % 7
      [] dt[1] = 2020 /\ dt[2] = 1 -> (6 + (dt[3] + 2)) % 7
      [] dt = <<2020, 2, 29>> -> 5
      [] OTHER -> 3

IsHoliday == predictor.holidays_br.present /\ args.data_fixa \in predictor.holidays_br.dates

IsWeekend == KnownDayOfWeek(args.data_fixa) >= 5

\* C6: feriado is 1 exactly when the date is in the holiday set, fim_semana is
\* 1 exactly when the day of the week is 5 or 6, and feriado_fim_semana is 1
\* exactly when the date is both a holiday and on a weekend; each is 0 otherwise.
C6_HolidayWeekend ==
    Returned =>
        /\ "feriado" \in DOMAIN X.row =>
              X.row["feriado"] = Num(IF IsHoliday THEN 1 ELSE 0)
        /\ "fim_semana" \in DOMAIN X.row =>
              X.row["fim_semana"] = Num(IF IsWeekend THEN 1 ELSE 0)
        /\ {"fim_semana", "dia_semana"} \subseteq DOMAIN X.row =>
              /\ X.row["dia_semana"] = Num(KnownDayOfWeek(args.data_fixa))
              /\ (X.row["fim_semana"] = Num(1)) <=> (X.row["dia_semana"].n >= 5)
        /\ "feriado_fim_semana" \in DOMAIN X.row =>
              X.row["feriado_fim_semana"] = Num(IF IsHoliday /\ IsWeekend THEN 1 ELSE 0)

C6_Witness ==
    /\ Returned
    /\ args.data_fixa = <<2020, 1, 4>>
    /\ "feriado_fim_semana" \in DOMAIN X.row
    /\ X.row["feriado"] = Num(1)
    /\ X.row["fim_semana"] = Num(1)
    /\ X.row["feriado_fim_semana"] = Num(1)

\* C8: with an empty schema the call returns the full computed row: the 13
\* calendar, hour and holiday features, then the 10 lag and moving-window
\* features, each 0, then the 3 encoded features, in that order and no other.
C8_FullRow ==
    (Returned /\ predictor.feature_names = <<>>) =>
        /\ X.built
        /\ X.columns = CalendarNames \o LagNames \o EncodedNames
        /\ Len(X.columns) = 26
        /\ DOMAIN X.row = ComputedNames
        /\ \A n \in RangeOf(LagNames) : X.row[n] = Num(0)

C8_Witness ==
    /\ Returned
    /\ predictor.feature_names = <<>>
    /\ Bank = FullBank
    /\ Len(X.columns) = 26
    /\ X.row["uf_principal_encoded"] = Num(1)
    /\ X.row["std_movel_28d"] = Num(0)

Shown(origin, kind) == {i \in DOMAIN msgs : msgs[i][1] = origin /\ msgs[i][2] = kind}

\* C9: a count reported as a success is a non-negative integer, the model's
\* output rounded to a nearest integer and clamped below at 0; a negative
\* output is reported as 0.
C9_NonNegativeCount ==
    \A i \in Shown("press", "success") :
        LET n == msgs[i][3]
            q == pred.raw.q
        IN /\ pred.invoked /\ pred.raw.finite
           /\ pred.raw.shape \in {"array", "scalar"}
           /\ n \in Nat
           /\ q <= 0 => n = 0
           /\ q >= 0 => (4 * n - q <= 2 /\ q - 4 * n <= 2)

C9_Witness ==
    /\ pc = "done"
    /\ pred.raw.q = -3
    /\ pred.raw.finite
    /\ Shown("press", "success") # {}
    /\ \A i \in Shown("press", "success") : msgs[i][3] = 0

====
